---- MODULE Spec2Model ----
(***************************************************************************)
(* PlanMyStay bootstrap (app.js): environment loading, database            *)
(* connection, session / flash / passport wiring, route mounting with the  *)
(* requireAuth gate, terminal handlers and listener startup, modelled as   *)
(* a state machine.  One request is in flight at a time; it walks the      *)
(* middleware chain in the order app.js registers it.                      *)
(***************************************************************************)
EXTENDS Integers, Sequences, FiniteSets, TLC

\* ------------------------------------------------------------------ bounds
MaxSessions == 2
MaxMsgs == 2
MaxTicks == 4
MaxStoreErrors == 2

\* --------------------------------------------------------------- constants
Sids == 1..MaxSessions
NoSid == 0
Users == {"u1", "u2"}
NoUser == "nobody"
Unset == "unset"
EnvValues == {Unset, "production", "development"}
DotenvValues == {Unset, "production"}

\* cookie.maxAge, in milliseconds
maxAge == 1000 * 60 * 60 * 24
\* touchAfter of the store, in seconds
touchAfter == 24 * 3600
\* the clock advances in steps of eight hours
TickMs == 1000 * 60 * 60 * 8
\* the 24 hours the identity of a login is promised for
DayMs == 24 * 60 * 60 * 1000

Paths ==
    { <<>>, <<"users", "login">>, <<"listings">>, <<"listings", "7", "reviews">>,
      <<"api", "insights">>, <<"services">>, <<"api", "journey">>, <<"journey">>,
      <<"seed-journey">>, <<"api", "predict-price">>, <<"favicon.ico">> }

VARIABLES
    pc,             \* position of the top-level script
    env,            \* process.env.NODE_ENV
    sessionConfig,  \* the sessionConfig object (its cookie part)
    db,             \* mongoose connection: idle, connecting, connected, failed
    listener,       \* closed, listening, error (bind failed, event pending)
    proc,           \* running or exited
    exitCode,       \* argument of process.exit, -1 while running
    storeErrors,    \* store errors logged by the store.on("error") handler
    users,          \* user records that exist
    store,          \* the session store: sid -> record
    now,            \* wall clock, milliseconds
    req,            \* the request in flight
    nextMsg,        \* next fresh flash message id
    msgs,           \* history of each flash message
    hist            \* history of the login that each stored session carries

vars == << pc, env, sessionConfig, db, listener, proc, exitCode,
           storeErrors, users, store, now, req, nextMsg, msgs, hist >>

bootVars == << pc, env, sessionConfig, db, listener, proc, exitCode >>

\* ------------------------------------------------------------ pure helpers
Min(S) == CHOOSE x \in S : \A y \in S : x <= y

Range(q) == { q[i] : i \in 1..Len(q) }

\* sessionConfig.cookie as built from process.env.NODE_ENV
CookieSecureInverted(nodeEnv) ==
    [httpOnly |-> TRUE, secure |-> (nodeEnv # "development"), maxAge |-> maxAge]

CookieHalfDay(nodeEnv) ==
    [httpOnly |-> TRUE, secure |-> (nodeEnv = "production"), maxAge |-> 1000 * 60 * 60 * 12]

CookieConfig(nodeEnv) ==
    [httpOnly |-> TRUE, secure |-> (nodeEnv = "production"), maxAge |-> maxAge]

NoCookieConfig == [httpOnly |-> FALSE, secure |-> FALSE, maxAge |-> 0]

\* the order in which app.js registers the route layers and terminal handlers
LayersNotFoundFirst ==
    << "users", "listings", "reviews", "insights", "services", "journeyApi",
       "notFound", "home", "journeyPage", "seedJourney", "predictPrice",
       "errorHandler" >>

Layers ==
    << "users", "listings", "reviews", "insights", "services", "journeyApi",
       "home", "journeyPage", "seedJourney", "predictPrice",
       "notFound", "errorHandler" >>

LayerPath(name) ==
    CASE name = "users" -> <<"users">>
      [] name = "listings" -> <<"listings">>
      [] name = "reviews" -> <<"listings", ":id", "reviews">>
      [] name = "insights" -> <<"api", "insights">>
      [] name = "services" -> <<"services">>
      [] name = "journeyApi" -> <<"api", "journey">>
      [] name = "home" -> <<>>
      [] name = "journeyPage" -> <<"journey">>
      [] name = "seedJourney" -> <<"seed-journey">>
      [] name = "predictPrice" -> <<"api", "predict-price">>
      [] OTHER -> <<>>

\* app.use mounts on a prefix, app.get / app.post on an exact path and verb
LayerVerb(name) ==
    CASE name \in {"home", "journeyPage", "seedJourney"} -> "GET"
      [] name = "predictPrice" -> "POST"
      [] name = "errorHandler" -> "err"
      [] OTHER -> "use"

\* the mounts that app.js puts requireAuth in front of
GatedWithoutServices(name) == name \in {"listings", "reviews", "insights"}

GatedWithoutInsights(name) == name \in {"listings", "reviews", "services"}

GatedWithJourney(name) == name \in {"listings", "reviews", "insights", "services", "journeyApi"}

Gated(name) == name \in {"listings", "reviews", "insights", "services"}

Routers == {"users", "listings", "reviews", "insights", "services", "journeyApi"}

InlineRoutes == {"home", "journeyPage", "seedJourney", "predictPrice"}

\* Express path matching: a segment that starts a parameter matches anything
PrefixMatch(pre, path) ==
    /\ Len(pre) <= Len(path)
    /\ \A i \in 1..Len(pre) : pre[i] = ":id" \/ pre[i] = path[i]

ExactMatch(pat, path) == Len(pat) = Len(path) /\ PrefixMatch(pat, path)

Match(name, path, method, isErr) ==
    CASE LayerVerb(name) = "err" -> isErr
      [] isErr -> FALSE
      [] LayerVerb(name) = "use" -> PrefixMatch(LayerPath(name), path)
      [] OTHER -> ExactMatch(LayerPath(name), path) /\ method = LayerVerb(name)

IndexOf(name) ==
    IF \E i \in 1..Len(Layers) : Layers[i] = name
    THEN Min({ i \in 1..Len(Layers) : Layers[i] = name })
    ELSE 0

\* the layer Express runs next, from position i on
NextLayer(i, path, method, isErr) ==
    LET c == { j \in i..Len(Layers) : Match(Layers[j], path, method, isErr) }
    IN  IF c = {} THEN "unhandled" ELSE Layers[Min(c)]

\* requireAuth: passes exactly the requests with a resolved user
RequireAuth(r) == r.user # NoUser

\* ------------------------------------------------------------ state shapes
EmptySession == [user |-> NoUser, success |-> <<>>, error |-> <<>>]

DeadRecord ==
    [live |-> FALSE, user |-> NoUser, success |-> <<>>, error |-> <<>>,
     expires |-> 0, lastModified |-> 0]

NoLocals == [currentUser |-> NoUser, success |-> <<>>, error |-> <<>>]

NoSetCookie == [sent |-> FALSE, httpOnly |-> FALSE, secure |-> FALSE, maxAge |-> 0]

IdleReq ==
    [stage |-> "idle", path |-> <<>>, method |-> "GET", cookie |-> NoSid,
     sid |-> NoSid, isNew |-> FALSE, sess |-> EmptySession, modified |-> FALSE,
     login |-> NoUser, dangling |-> FALSE, user |-> NoUser, locals |-> NoLocals,
     reached |-> {}, responses |-> 0, by |-> "none", kind |-> "none",
     err |-> "none", setCookie |-> NoSetCookie]

NoMsg == [sid |-> NoSid, drain |-> "unused", shown |-> 0, missed |-> FALSE]

NoLogin == [user |-> NoUser, at |-> 0]

Live(s) == store[s].live /\ store[s].expires > now

Serving == pc = "loop" /\ listener = "listening" /\ proc = "running"

\* ---------------------------------------------------------------- startup
Init ==
    /\ pc = "env"
    /\ env \in EnvValues
    /\ sessionConfig = NoCookieConfig
    /\ db = "idle"
    /\ listener = "closed"
    /\ proc = "running"
    /\ exitCode = -1
    /\ storeErrors = 0
    /\ users = Users
    /\ store = [s \in Sids |-> DeadRecord]
    /\ now = 0
    /\ req = IdleReq
    /\ nextMsg = MaxMsgs + 1
    /\ msgs = [m \in 1..MaxMsgs |-> NoMsg]
    /\ hist = [s \in Sids |-> NoLogin]

\* the state once startup has succeeded: the script has run, the database is
\* connected and the server listens; registered are the users of `us`, and
\* the producers have the flash messages from `firstMsg` on to enqueue
InitServing(us, firstMsg) ==
    /\ pc = "loop"
    /\ env = "development"
    /\ sessionConfig = CookieConfig(env)
    /\ db = "connected"
    /\ listener = "listening"
    /\ proc = "running"
    /\ exitCode = -1
    /\ storeErrors = 0
    /\ users = us
    /\ store = [s \in Sids |-> DeadRecord]
    /\ now = 0
    /\ req = IdleReq
    /\ nextMsg = firstMsg
    /\ msgs = [m \in 1..MaxMsgs |-> NoMsg]
    /\ hist = [s \in Sids |-> NoLogin]

\* lines 2-4: dotenv fills in variables the environment does not set
LoadEnv ==
    /\ pc = "env" /\ proc = "running"
    /\ \E fileValue \in DotenvValues :
          env' = IF env # "production"
                 THEN (IF env = Unset THEN fileValue ELSE env)
                 ELSE env
    /\ pc' = "main"
    /\ UNCHANGED << sessionConfig, db, listener, proc, exitCode,
                    storeErrors, users, store, now, req, nextMsg, msgs, hist >>

\* line 63: main() is called and not awaited; mongoose.connect is pending
Main ==
    /\ pc = "main" /\ proc = "running"
    /\ db' = "connecting"
    /\ pc' = "config"
    /\ UNCHANGED << env, sessionConfig, listener, proc, exitCode,
                    storeErrors, users, store, now, req, nextMsg, msgs, hist >>

\* lines 75-98: the store and the session configuration
BuildSessionConfig ==
    /\ pc = "config" /\ proc = "running"
    /\ sessionConfig' = CookieConfig(env)
    /\ pc' = "listen"
    /\ UNCHANGED << env, db, listener, proc, exitCode,
                    storeErrors, users, store, now, req, nextMsg, msgs, hist >>

\* lines 100-172: the middleware is registered and app.listen binds the port;
\* the outcome of the bind is delivered on the next tick
Listen ==
    /\ pc = "listen" /\ proc = "running"
    /\ \E bound \in BOOLEAN : listener' = IF bound THEN "bound" ELSE "error"
    /\ pc' = "nextTick"
    /\ UNCHANGED << env, sessionConfig, db, proc, exitCode,
                    storeErrors, users, store, now, req, nextMsg, msgs, hist >>

\* lines 168-172: the listen callback logs that the server is up
ListenCallback ==
    /\ pc = "nextTick" /\ proc = "running"
    /\ listener = "bound"
    /\ listener' = "listening"
    /\ pc' = "loop"
    /\ UNCHANGED << env, sessionConfig, db, proc, exitCode,
                    storeErrors, users, store, now, req, nextMsg, msgs, hist >>

\* lines 175-185: the server's error event
ServerError ==
    /\ pc = "nextTick" /\ proc = "running"
    /\ listener = "error"
    /\ proc' = "exited"
    /\ exitCode' = 1
    /\ UNCHANGED << pc, env, sessionConfig, db, listener,
                    storeErrors, users, store, now, req, nextMsg, msgs, hist >>

\* lines 53-57: mongoose.connect resolves
DbConnected ==
    /\ pc = "loop" /\ proc = "running"
    /\ db = "connecting"
    /\ db' = "connected"
    /\ UNCHANGED << pc, env, sessionConfig, listener, proc, exitCode,
                    storeErrors, users, store, now, req, nextMsg, msgs, hist >>

\* lines 58-61: mongoose.connect rejects
DbConnectFailed ==
    /\ pc = "loop" /\ proc = "running"
    /\ db = "connecting"
    /\ db' = "failed"
    /\ proc' = "exited"
    /\ exitCode' = 1
    /\ UNCHANGED << pc, env, sessionConfig, listener,
                    storeErrors, users, store, now, req, nextMsg, msgs, hist >>

\* lines 83-85: the store's error event is logged
StoreErrorExits ==
    /\ pc = "loop" /\ proc = "running"
    /\ storeErrors < MaxStoreErrors
    /\ storeErrors' = storeErrors + 1
    /\ proc' = "exited"
    /\ exitCode' = 1
    /\ UNCHANGED << pc, env, sessionConfig, db, listener,
                    users, store, now, req, nextMsg, msgs, hist >>

StoreError ==
    /\ pc = "loop" /\ proc = "running"
    /\ storeErrors < MaxStoreErrors
    /\ storeErrors' = storeErrors + 1
    /\ UNCHANGED << pc, env, sessionConfig, db, listener, proc, exitCode,
                    users, store, now, req, nextMsg, msgs, hist >>

\* ------------------------------------------------------- environment steps
Tick ==
    /\ proc = "running"
    /\ req.stage = "idle"
    /\ now < MaxTicks * TickMs
    /\ now' = now + TickMs
    /\ UNCHANGED << bootVars, storeErrors, users, store, req, nextMsg, msgs, hist >>

\* the store's TTL index removes a record whose expiry has passed
Purge ==
    /\ Serving
    /\ \E s \in Sids :
          /\ store[s].live /\ store[s].expires <= now
          /\ store' = [store EXCEPT ![s] = DeadRecord]
          /\ hist' = [hist EXCEPT ![s] = NoLogin]
          /\ msgs' = [m \in 1..MaxMsgs |->
                        IF msgs[m].sid = s THEN [msgs[m] EXCEPT !.sid = NoSid] ELSE msgs[m]]
    /\ UNCHANGED << bootVars, storeErrors, users, now, req, nextMsg >>

\* a user record is removed from the user collection
DeleteUser ==
    /\ Serving
    /\ \E u \in users : users' = users \ {u}
    /\ UNCHANGED << bootVars, storeErrors, store, now, req, nextMsg, msgs, hist >>

\* the listener accepts a request
NewRequest ==
    /\ Serving
    /\ req.stage = "idle"
    /\ \E path \in Paths, method \in {"GET", "POST"}, cookie \in Sids \cup {NoSid} :
          /\ (cookie # NoSid /\ Live(cookie)) \/ (\E s \in Sids : ~store[s].live)
          /\ req' = [IdleReq EXCEPT !.stage = "urlencoded", !.path = path,
                                    !.method = method, !.cookie = cookie]
    /\ UNCHANGED << bootVars, storeErrors, users, store, now, nextMsg, msgs, hist >>

\* the response has gone out and the request is over
Close ==
    /\ proc = "running"
    /\ req.stage = "done"
    /\ req' = IdleReq
    /\ UNCHANGED << bootVars, storeErrors, users, store, now, nextMsg, msgs, hist >>

\* ------------------------------------------------------ response and save
\* res.end as wrapped by express-session: the session is saved when it was
\* modified and touched otherwise, and the cookie is set on a save
Ended(r, by, kind, st, hs, ms) ==
    LET save == r.sid # NoSid /\ r.modified
        touch == /\ r.sid # NoSid /\ ~r.modified /\ ~r.isNew
                 /\ st[r.sid].live
                 /\ now - st[r.sid].lastModified >= touchAfter * 1000
        drained == Range(r.locals.success) \cup Range(r.locals.error)
        queued == Range(r.sess.success) \cup Range(r.sess.error)
    IN  [ store |->
            IF save
            THEN [st EXCEPT ![r.sid] =
                    [live |-> TRUE, user |-> r.sess.user, success |-> r.sess.success,
                     error |-> r.sess.error, expires |-> now + sessionConfig.maxAge,
                     lastModified |-> now]]
            ELSE IF touch
            THEN [st EXCEPT ![r.sid].expires = now + sessionConfig.maxAge,
                            ![r.sid].lastModified = now]
            ELSE st,
          req |->
            [r EXCEPT !.stage = "done", !.responses = @ + 1, !.by = by, !.kind = kind,
                      !.setCookie =
                          IF save
                          THEN [sent |-> TRUE, httpOnly |-> sessionConfig.httpOnly,
                                secure |-> sessionConfig.secure,
                                maxAge |-> sessionConfig.maxAge]
                          ELSE NoSetCookie],
          hist |->
            IF save
            THEN [hs EXCEPT ![r.sid] =
                    IF r.login # NoUser THEN [user |-> r.login, at |-> now]
                    ELSE IF r.isNew \/ r.sess.user = NoUser THEN NoLogin
                    ELSE @]
            ELSE hs,
          msgs |->
            [m \in 1..MaxMsgs |->
                IF m \in drained
                THEN [ms[m] EXCEPT !.drain = kind,
                                   !.shown = IF kind = "render" THEN @ + 1 ELSE @]
                ELSE IF /\ kind = "render" /\ r.sid # NoSid /\ ms[m].sid = r.sid
                        /\ m \notin queued /\ ms[m].shown = 0
                THEN [ms[m] EXCEPT !.missed = TRUE]
                ELSE ms[m]] ]

Commit(o) ==
    /\ store' = o.store
    /\ req' = o.req
    /\ hist' = o.hist
    /\ msgs' = o.msgs

\* req.flash(key, message): a producer enqueues a fresh message
Enqueue(r, key) ==
    [r EXCEPT !.sess[key] = Append(@, nextMsg), !.modified = TRUE]

Enqueued(ms, r) ==
    [ms EXCEPT ![nextMsg] = [sid |-> r.sid, drain |-> "queued", shown |-> 0, missed |-> FALSE]]

Forward(r, isErr) == NextLayer(IndexOf(r.stage) + 1, r.path, r.method, isErr)

Enter(r) == [r EXCEPT !.reached = @ \cup {r.stage}]

\* ------------------------------------------------------- middleware chain
\* line 70: express.urlencoded; a body it cannot parse is passed on as an error
Urlencoded ==
    /\ proc = "running" /\ req.stage = "urlencoded"
    /\ \E bad \in BOOLEAN :
          req' = IF req.method = "POST" /\ bad
                 THEN [Enter(req) EXCEPT !.err = "body",
                           !.stage = NextLayer(1, req.path, req.method, TRUE)]
                 ELSE [Enter(req) EXCEPT !.stage = "methodOverride"]
    /\ UNCHANGED << bootVars, storeErrors, users, store, now, nextMsg, msgs, hist >>

\* line 71: methodOverride("_method") rewrites the verb of a POST
MethodOverride ==
    /\ proc = "running" /\ req.stage = "methodOverride"
    /\ \E override \in {"none", "GET", "DELETE"} :
          req' = [Enter(req) EXCEPT
                     !.method = IF @ = "POST" /\ override # "none" THEN override ELSE @,
                     !.stage = "static"]
    /\ UNCHANGED << bootVars, storeErrors, users, store, now, nextMsg, msgs, hist >>

\* line 72: express.static answers a GET for a file that exists under public/
Static ==
    /\ proc = "running" /\ req.stage = "static"
    /\ \E fileExists \in BOOLEAN :
          IF req.method = "GET" /\ fileExists
          THEN Commit(Ended(Enter(req), "static", "file", store, hist, msgs))
          ELSE /\ req' = [Enter(req) EXCEPT !.stage = "session"]
               /\ UNCHANGED << store, hist, msgs >>
    /\ UNCHANGED << bootVars, storeErrors, users, now, nextMsg >>

\* line 100: session(sessionConfig) loads the session of the cookie, or
\* starts a new one (saveUninitialized is false: nothing is stored yet)
Session ==
    /\ proc = "running" /\ req.stage = "session"
    /\ req' = IF req.cookie # NoSid /\ Live(req.cookie)
              THEN [Enter(req) EXCEPT
                       !.sid = req.cookie,
                       !.sess = [user |-> store[req.cookie].user,
                                 success |-> store[req.cookie].success,
                                 error |-> store[req.cookie].error],
                       !.stage = "flash"]
              ELSE [Enter(req) EXCEPT
                       !.sid = Min({ s \in Sids : ~store[s].live }),
                       !.isNew = TRUE,
                       !.stage = "flash"]
    /\ UNCHANGED << bootVars, storeErrors, users, store, now, nextMsg, msgs, hist >>

\* line 101: flash() installs req.flash
Flash ==
    /\ proc = "running" /\ req.stage = "flash"
    /\ req' = [Enter(req) EXCEPT !.stage = "passportInit"]
    /\ UNCHANGED << bootVars, storeErrors, users, store, now, nextMsg, msgs, hist >>

\* line 104: passport.initialize()
PassportInitialize ==
    /\ proc = "running" /\ req.stage = "passportInit"
    /\ req' = [Enter(req) EXCEPT !.stage = "passportSession"]
    /\ UNCHANGED << bootVars, storeErrors, users, store, now, nextMsg, msgs, hist >>

\* lines 105, 109: passport.session() deserializes the stored id; an id that
\* resolves to no user is dropped and the request goes on without a user
PassportSession ==
    /\ proc = "running" /\ req.stage = "passportSession"
    /\ req.sess.user # NoUser => db = "connected"
    /\ req' = IF req.sess.user = NoUser
              THEN [Enter(req) EXCEPT !.stage = "locals"]
              ELSE IF req.sess.user \in users
              THEN [Enter(req) EXCEPT !.user = req.sess.user, !.stage = "locals"]
              ELSE [Enter(req) EXCEPT !.sess.user = NoUser, !.modified = TRUE,
                                      !.dangling = TRUE, !.stage = "locals"]
    /\ UNCHANGED << bootVars, storeErrors, users, store, now, nextMsg, msgs, hist >>

\* lines 112-117: the view context; req.flash(key) returns the queue and clears it
Locals ==
    /\ proc = "running" /\ req.stage = "locals"
    /\ req' = [Enter(req) EXCEPT
                  !.locals = [currentUser |-> req.user,
                              success |-> req.sess.success,
                              error |-> req.sess.error],
                  !.sess.success = <<>>,
                  !.sess.error = <<>>,
                  !.modified = @ \/ req.sess.success # <<>> \/ req.sess.error # <<>>,
                  !.stage = NextLayer(1, req.path, req.method, FALSE)]
    /\ UNCHANGED << bootVars, storeErrors, users, store, now, nextMsg, msgs, hist >>

\* ------------------------------------------------------------ route layers
\* a mounted route collection: it answers (and may enqueue a flash message
\* first), finds no route of its own, or raises an error
Router(r) ==
    \E outcome \in {"render", "redirect", "json", "next", "error"},
       key \in {"none", "success", "error"} :
       /\ key # "none" => outcome \in {"render", "redirect"} /\ nextMsg <= MaxMsgs
       /\ CASE outcome = "next" ->
                 /\ req' = [r EXCEPT !.stage = Forward(r, FALSE)]
                 /\ UNCHANGED << store, hist, msgs, nextMsg >>
            [] outcome = "error" ->
                 /\ req' = [r EXCEPT !.err = "route", !.stage = Forward(r, TRUE)]
                 /\ UNCHANGED << store, hist, msgs, nextMsg >>
            [] OTHER ->
                 IF key = "none"
                 THEN /\ Commit(Ended(r, r.stage, outcome, store, hist, msgs))
                      /\ UNCHANGED nextMsg
                 ELSE /\ Commit(Ended(Enqueue(r, key), r.stage, outcome, store, hist,
                                      Enqueued(msgs, r)))
                      /\ nextMsg' = nextMsg + 1

\* app.use(prefix, requireAuth, routes) and app.use(prefix, routes)
Mount(name) ==
    /\ proc = "running" /\ req.stage = name
    /\ IF Gated(name) /\ ~RequireAuth(req)
       THEN /\ Commit(Ended([req EXCEPT !.reached = @ \cup {"requireAuth"}],
                            "requireAuth", "authRequired", store, hist, msgs))
            /\ UNCHANGED nextMsg
       ELSE Router([req EXCEPT !.reached =
                        @ \cup {name} \cup (IF Gated(name) THEN {"requireAuth"} ELSE {})])
    /\ UNCHANGED << bootVars, storeErrors, users, now >>

\* line 120: the user routes also log a user in and out
UserRoutes ==
    /\ proc = "running" /\ req.stage = "users"
    /\ \/ Router(Enter(req))
       \/ \E u \in users :
             /\ db = "connected"
             /\ Commit(Ended([Enter(req) EXCEPT !.user = u, !.sess.user = u,
                                                !.login = u, !.modified = TRUE],
                             "users", "redirect", store, hist, msgs))
             /\ UNCHANGED nextMsg
       \/ /\ req.user # NoUser
          /\ Commit(Ended([Enter(req) EXCEPT !.user = NoUser, !.sid = NoSid,
                                             !.sess = EmptySession],
                          "users", "redirect",
                          [store EXCEPT ![req.sid] = DeadRecord],
                          [hist EXCEPT ![req.sid] = NoLogin],
                          [m \in 1..MaxMsgs |->
                              IF msgs[m].sid = req.sid
                              THEN [msgs[m] EXCEPT !.sid = NoSid] ELSE msgs[m]]))
          /\ UNCHANGED nextMsg
    /\ UNCHANGED << bootVars, storeErrors, users, now >>

\* line 121
ListingRoutes == Mount("listings")

\* line 122
ReviewRoutes == Mount("reviews")

\* line 123
InsightsRoutes == Mount("insights")

\* line 124
ServicesRoutes == Mount("services")

\* line 125
JourneyRoutes == Mount("journeyApi")

\* res.render of an inline page; a failing render is passed on as an error
RenderPage(name) ==
    /\ proc = "running" /\ req.stage = name
    /\ \E ok \in BOOLEAN :
          IF ok
          THEN Commit(Ended(Enter(req), name, "render", store, hist, msgs))
          ELSE /\ req' = [Enter(req) EXCEPT !.err = "render",
                                            !.stage = Forward(req, TRUE)]
               /\ UNCHANGED << store, hist, msgs >>
    /\ UNCHANGED << bootVars, storeErrors, users, now, nextMsg >>

\* lines 128-130
Home == RenderPage("home")

\* lines 133-135
JourneyPage == RenderPage("journeyPage")

\* a handler that catches its own failure and answers JSON either way
JsonEndpoint(name) ==
    /\ proc = "running" /\ req.stage = name
    /\ \E ok \in BOOLEAN :
          Commit(Ended(Enter(req), name, IF ok THEN "json" ELSE "json500",
                       store, hist, msgs))
    /\ UNCHANGED << bootVars, storeErrors, users, now, nextMsg >>

\* lines 138-147
SeedJourney == JsonEndpoint("seedJourney")

\* lines 150-159
PredictPrice == JsonEndpoint("predictPrice")

\* line 162
NotFoundHandler ==
    /\ proc = "running" /\ req.stage = "notFound"
    /\ Commit(Ended(Enter(req), "notFound", "notFound", store, hist, msgs))
    /\ UNCHANGED << bootVars, storeErrors, users, now, nextMsg >>

\* line 163
ErrorHandler ==
    /\ proc = "running" /\ req.stage = "errorHandler"
    /\ Commit(Ended(Enter(req), "errorHandler", "error", store, hist, msgs))
    /\ UNCHANGED << bootVars, storeErrors, users, now, nextMsg >>

\* ----------------------------------------------------------- specification
Boot ==
    \/ LoadEnv \/ Main \/ BuildSessionConfig \/ Listen
    \/ ListenCallback \/ ServerError \/ DbConnected \/ DbConnectFailed

\* the steps of a request that has been accepted
Handling ==
    \/ Urlencoded \/ MethodOverride \/ Static \/ Session \/ Flash
    \/ PassportInitialize \/ PassportSession \/ Locals
    \/ UserRoutes \/ ListingRoutes \/ ReviewRoutes \/ InsightsRoutes
    \/ ServicesRoutes \/ JourneyRoutes
    \/ Home \/ JourneyPage \/ SeedJourney \/ PredictPrice
    \/ NotFoundHandler \/ ErrorHandler
    \/ Close

Pipeline == NewRequest \/ Handling

\* startup, store errors and the requests served meanwhile
NextStartup == Boot \/ StoreError \/ Pipeline

SpecStartup == Init /\ [][NextStartup]_vars

\* a running server whose users come and go
NextRouting == Pipeline \/ DeleteUser

SpecRouting == InitServing(Users, MaxMsgs + 1) /\ [][NextRouting]_vars

\* Express runs the next layer as soon as the previous one has passed the
\* request on
SpecRoutingFair == SpecRouting /\ WF_vars(Handling)

\* a running server whose route handlers enqueue flash messages
SpecFlash == InitServing({}, 1) /\ [][Pipeline]_vars

\* a running server and the clock that expires its sessions
NextSession == Pipeline \/ Tick \/ Purge

SpecSession == InitServing(Users, MaxMsgs + 1) /\ [][NextSession]_vars

\* the event loop runs a pending next-tick callback and a settled promise
SpecStartupFair ==
    SpecStartup /\ WF_vars(ServerError) /\ WF_vars(ListenCallback)

\* ------------------------------------------------------------------ claims
Done == req.stage = "done"

ProtectedPrefixes ==
    { <<"listings">>, <<"listings", ":id", "reviews">>, <<"api", "insights">>,
      <<"services">> }

UnderProtected(path) == \E pre \in ProtectedPrefixes : PrefixMatch(pre, path)

ProtectedHandlers == {"listings", "reviews", "insights", "services"}

SessionChain == {"session", "flash", "passportInit", "passportSession", "locals"}

\* C1 as stated: a request without a resolved user under a gated prefix is
\* answered by requireAuth with the authentication-required outcome and
\* reaches none of the route collections behind the gate.
C1_AnonymousAnsweredByGate ==
    (Done /\ req.user = NoUser /\ UnderProtected(req.path)) =>
        /\ req.by = "requireAuth"
        /\ req.kind = "authRequired"
        /\ req.reached \cap ProtectedHandlers = {}

\* C1 as amended: such a request never reaches the route collections behind
\* the gate, and when it gets as far as the route layers (it was not served
\* as a static file and its body was not rejected) requireAuth answers it
\* with the authentication-required outcome.
C1_GateDeniesAnonymous ==
    /\ (req.user = NoUser /\ UnderProtected(req.path)) =>
           req.reached \cap ProtectedHandlers = {}
    /\ (Done /\ req.user = NoUser /\ UnderProtected(req.path)
             /\ req.by # "static" /\ req.err # "body") =>
           /\ req.by = "requireAuth"
           /\ req.kind = "authRequired"

C1_Witness ==
    /\ Done /\ req.cookie # NoSid /\ req.sid = req.cookie /\ ~req.isNew
    /\ req.user = NoUser /\ req.path = <<"listings", "7", "reviews">>
    /\ req.by = "requireAuth"

\* C2 as stated: the server never listens while the database connection is
\* not established.
C2_NoListeningWithoutDatabase ==
    (listener = "listening" /\ proc = "running") => db = "connected"

\* C3 as stated: the first rendered response of a session after a message was
\* enqueued shows the message, and no message is shown twice.
C3_FlashShownOnceAtFirstRender ==
    \A m \in 1..MaxMsgs : ~msgs[m].missed /\ msgs[m].shown <= 1

C5_DanglingIdIsAnonymous ==
    req.dangling =>
        /\ "locals" \in req.reached => req.locals.currentUser = NoUser
        /\ req.reached \cap ProtectedHandlers = {}
        /\ (Done /\ UnderProtected(req.path)) =>
               req.by = "requireAuth" /\ req.kind = "authRequired"
        /\ (Done /\ PrefixMatch(<<"users">>, req.path)) => "users" \in req.reached
        /\ (Done /\ PrefixMatch(<<"api", "journey">>, req.path)) =>
               "journeyApi" \in req.reached
        /\ (Done /\ req.by = "errorHandler") => req.err \in {"route", "render"}

C5_Witness ==
    /\ Done /\ req.dangling /\ req.path = <<"api", "insights">>
    /\ req.by = "requireAuth" /\ req.locals.currentUser = NoUser

UngatedPaths == { <<>>, <<"journey">>, <<"users", "login">>, <<"api", "journey">> }

\* the route app.js registers for a request to an ungated path
RouteOf(path, method) ==
    CASE PrefixMatch(<<"users">>, path) -> "users"
      [] PrefixMatch(<<"api", "journey">>, path) -> "journeyApi"
      [] path = <<>> /\ method = "GET" -> "home"
      [] path = <<"journey">> /\ method = "GET" -> "journeyPage"
      [] OTHER -> "none"

\* C6 as stated: a request without a cookie to a route under an ungated prefix
\* passes the session, flash, passport and view-context middleware and
\* reaches its route handler, and the gate does not answer it.
C6_UngatedReachesHandler ==
    (Done /\ req.cookie = NoSid /\ RouteOf(req.path, req.method) # "none") =>
        /\ req.by # "requireAuth"
        /\ SessionChain \subseteq req.reached
        /\ RouteOf(req.path, req.method) \in req.reached

\* C6 as amended: the gate answers no request to an ungated prefix, and the
\* request passes the middleware and reaches its route handler unless the
\* static middleware served it or the body parser rejected its body.
C6_UngatedNotGated ==
    /\ (Done /\ req.cookie = NoSid /\ req.path \in UngatedPaths) =>
           req.by # "requireAuth"
    /\ (Done /\ req.cookie = NoSid /\ RouteOf(req.path, req.method) # "none"
             /\ req.by # "static" /\ req.err # "body") =>
           /\ SessionChain \subseteq req.reached
           /\ RouteOf(req.path, req.method) \in req.reached

C6_Witness ==
    /\ Done /\ req.cookie = NoSid /\ req.path = <<"api", "journey">>
    /\ "journeyApi" \in req.reached /\ req.by = "journeyApi"

\* C7: the cookie of the session configuration, and every cookie the server
\* sets, is httpOnly, lives 24 hours, and is secure exactly when NODE_ENV is
\* "production".
C7_CookieAttributes ==
    /\ pc \in {"listen", "nextTick", "loop"} =>
           sessionConfig = [httpOnly |-> TRUE, secure |-> (env = "production"),
                            maxAge |-> 86400000]
    /\ req.setCookie.sent =>
           /\ req.setCookie.httpOnly
           /\ req.setCookie.secure = (env = "production")
           /\ req.setCookie.maxAge = 86400000

C7_Witness ==
    /\ req.setCookie.sent /\ env = "production" /\ req.setCookie.secure

\* C8: the process exits only on a database connection failure or a listener
\* error, always with code 1, and each of the two leads to the exit; a store
\* error changes nothing but the log, and the server goes on taking requests.
C8_OnlyFatalErrorsExit ==
    /\ [][ (proc = "running" /\ proc' = "exited") =>
              (exitCode' = 1 /\ (db' = "failed" \/ listener = "error")) ]_vars
    /\ [][ storeErrors' # storeErrors =>
              (proc' = proc /\ listener' = listener /\ req' = req /\ store' = store) ]_vars
    /\ [](db = "failed" => (proc = "exited" /\ exitCode = 1))
    /\ [](proc = "exited" => exitCode = 1)
    /\ [](listener = "error" => <>(proc = "exited" /\ exitCode = 1))
    /\ []((storeErrors > 0 /\ Serving /\ req.stage = "idle") =>
              ENABLED NewRequest)

C8_Witness ==
    /\ storeErrors >= 1 /\ Serving /\ Done /\ req.by = "home"

\* C9 as stated: a message leaves the queue only into a rendered response; no
\* request that answers with JSON, with the gate's redirect or from the
\* not-found handler takes it.
C9_FlashWaitsForRender ==
    \A m \in 1..MaxMsgs :
        msgs[m].drain \notin {"json", "json500", "authRequired", "notFound", "redirect"}

\* C10: a request that no earlier stage answers ends in notFoundHandler, an
\* error that a stage passes on ends in errorHandler, neither runs for a
\* request already answered, and a request gets exactly one response.
C10_Dispatch ==
    /\ req.responses <= 1
    /\ Done =>
        /\ req.responses = 1
        /\ ("notFound" \in req.reached) <=> (req.by = "notFound")
        /\ ("errorHandler" \in req.reached) <=> (req.by = "errorHandler")
        /\ (req.err # "none") <=> (req.by = "errorHandler")
        /\ req.by = "notFound" =>
              /\ \A h \in InlineRoutes : ~Match(h, req.path, req.method, FALSE)
              /\ \A h \in Routers :
                     PrefixMatch(LayerPath(h), req.path) => h \in req.reached
        /\ req.by \in Routers \cup InlineRoutes \cup
                      {"static", "requireAuth", "notFound", "errorHandler"}

C10_TerminalHandlers ==
    /\ []C10_Dispatch
    /\ [](req.stage # "idle" => <>Done)

C10_Witness ==
    /\ Done /\ req.by = "notFound" /\ "users" \in req.reached

====
